---- MODULE Spec2Model ----
(***************************************************************************)
(* admix: the deletion daemon (admix/daemons/delete.py) and the run        *)
(* diagnostic (admix/showrun.py).                                          *)
(*                                                                         *)
(*   Spec      find_priority and the deletion loop of do_task, started     *)
(*             with tagged collections given by the caller                 *)
(*   SpecScan  do_task from its first statement: find_single_copy as coded *)
(*   SpecShow  step 3 of showdataset: the analysis of the storage          *)
(*             locations of one dataset                                    *)
(*   SpecAgg   showdataset from its first statement to the end of step 2   *)
(*   SpecItems the scan of find_single_copy, or one call of showdataset    *)
(*   SpecRun   the loop of showrun over the runs and their data entries    *)
(***************************************************************************)
EXTENDS Integers, Sequences, FiniteSets, TLC

(* ---------------------------- bounds ----------------------------------- *)

\* longest tagged collection (tagged_dids / tagged_on_rse)
MaxTagged == 3
\* largest bytes_remaining of a storage location
MaxCap == 2
\* most data entries of the tagged runs together
MaxEntries == 3
\* largest file count (RucioNFiles, file_count)
MaxFiles == 1
\* largest number of run-database entries of a dataset at one location
MaxDBentries == 2
\* largest number of rucio rules of a dataset (len(rses_with_data))
MaxRules == 2
\* most entries of the data lists of the run documents the diagnostic reads
MaxRunData == 2

(* ------------------------- values of the model ------------------------- *)

\* A string that the code splits is a sequence of pieces, the separators
\* ":" and "-" being pieces of their own.
DidRaw   == <<"xnt_007330", ":", "raw_records", "-", "rfzvpzj4mf">>
DidPeaks == <<"xnt_007330", ":", "peaks", "-", "pdrdgswnsa">>
DidJunk  == <<"shit">>
NoDid    == <<>>

\* the dataset identifiers, in the order np.unique sorts them
DIDS == <<DidPeaks, DidRaw>>

DidSet == {DIDS[n] : n \in 1..Len(DIDS)}

Locations == {"NIKHEF2_USERDISK", "UC_OSG_USERDISK", "SURFSARA_USERDISK"}

Capacities == 0..MaxCap

\* rucio.list_rses() with get_account_usage(rse)['bytes_remaining']: only the
\* locations the registry lists have a value.
UsageSpace == UNION {[S -> Capacities] : S \in SUBSET Locations}

Pairs == DidSet \X Locations

RECURSIVE SeqsUpTo(_, _)
SeqsUpTo(S, n) ==
    IF n = 0 THEN {<<>>}
    ELSE LET shorter == SeqsUpTo(S, n - 1)
         IN  shorter \cup {Append(s, x) : s \in {t \in shorter : Len(t) = n - 1}, x \in S}

Range(s) == {s[n] : n \in 1..Len(s)}

VARIABLES
    \* DeleteDaemon
    tagged_dids, tagged_on_rse, to_delete_dids, to_delete_on_rse, rse_dict,
    \* do_task: where it is, the exception that ended it, the loop index
    pc, err, i,
    \* the registry and the run database as the collaborators see them
    usage, copies, calls, rerun,
    \* find_single_copy
    runs, raw_type_only, ri, di, seen,
    \* showdataset
    Nfiles, ebstatus, len_rses_with_data, rses, k, warnings,
    \* showdataset: its arguments and the count of double entries
    run, datum, Copies,
    \* showrun
    cursor, args, rr, dj, eb, shown

daemonVars == <<tagged_dids, tagged_on_rse, to_delete_dids, to_delete_on_rse, rse_dict>>
taskVars   == <<pc, err, i>>
worldVars  == <<usage, copies, calls, rerun>>
scanVars   == <<runs, raw_type_only, ri, di, seen>>
aggVars    == <<run, datum, Copies>>
runVars    == <<cursor, args, rr, dj, eb, shown>>
showVars   == <<Nfiles, ebstatus, len_rses_with_data, rses, k, warnings, aggVars, runVars>>

vars == <<daemonVars, taskVars, worldVars, scanVars, showVars>>

EmptyDict == [x \in {} |-> 0]

(* ------------------- DeleteDaemon.find_priority ------------------------ *)

RECURSIVE SortedDids(_, _)
SortedDids(S, n) ==
    IF n > Len(DIDS) THEN <<>>
    ELSE (IF DIDS[n] \in S THEN <<DIDS[n]>> ELSE <<>>) \o SortedDids(S, n + 1)

\* np.unique(self.tagged_dids): the distinct values, sorted
Unique(dids) == SortedDids(Range(dids), 1)

\* the selection without its mask: every tagged location, whatever its did
MaskedAll(on_rse, dids, d) == on_rse

\* self.tagged_on_rse[self.tagged_dids == d]
RECURSIVE Masked(_, _, _)
Masked(on_rse, dids, d) ==
    IF on_rse = <<>> THEN <<>>
    ELSE (IF Head(dids) = d THEN <<Head(on_rse)>> ELSE <<>>)
         \o Masked(Tail(on_rse), Tail(dids), d)

\* remaining_storage[j] = int(self.rse_dict[rse]): the byte counts are kept in a
\* float64 array, which holds every integer below 2^53 exactly; Capacities
\* lies in that range.
RemainingStorage(rses_of_d, dict) == [j \in 1..Len(rses_of_d) |-> dict[rses_of_d[j]]]

\* np.argmin in the place of np.argmax
ArgMin(v) ==
    CHOOSE j \in 1..Len(v) :
        /\ \A n \in 1..Len(v) : v[n] >= v[j]
        /\ \A n \in 1..(j - 1) : v[n] > v[j]

\* the last index of the maximum in the place of the first
ArgMaxLast(v) ==
    CHOOSE j \in 1..Len(v) :
        /\ \A n \in 1..Len(v) : v[n] <= v[j]
        /\ \A n \in (j + 1)..Len(v) : v[n] < v[j]

\* np.argmax: the first index of the maximum
ArgMax(v) ==
    CHOOSE j \in 1..Len(v) :
        /\ \A n \in 1..Len(v) : v[n] <= v[j]
        /\ \A n \in 1..(j - 1) : v[n] < v[j]

MaxRse(rses_of_d, dict) == rses_of_d[ArgMax(RemainingStorage(rses_of_d, dict))]

\* the loop without its test "rse != max_rse": every location is marked
RestAll(rses_of_d, max_rse) == rses_of_d

\* for rse in rses: if rse != max_rse: append
Rest(rses_of_d, max_rse) == SelectSeq(rses_of_d, LAMBDA r : r # max_rse)

ToDeleteOnRseOf(d, dids, on_rse, dict) ==
    LET rses_of_d == Masked(on_rse, dids, d)
    IN  Rest(rses_of_d, MaxRse(rses_of_d, dict))

RECURSIVE ToDeleteOnRse(_, _, _, _)
ToDeleteOnRse(uniq, dids, on_rse, dict) ==
    IF uniq = <<>> THEN <<>>
    ELSE ToDeleteOnRseOf(Head(uniq), dids, on_rse, dict)
         \o ToDeleteOnRse(Tail(uniq), dids, on_rse, dict)

RECURSIVE ToDeleteDids(_, _, _, _)
ToDeleteDids(uniq, dids, on_rse, dict) ==
    IF uniq = <<>> THEN <<>>
    ELSE [j \in 1..Len(ToDeleteOnRseOf(Head(uniq), dids, on_rse, dict)) |-> Head(uniq)]
         \o ToDeleteDids(Tail(uniq), dids, on_rse, dict)

\* self.rse_dict[rse] raises KeyError for a location the registry did not list
KeyErrorRaised(on_rse, dict) == \E n \in 1..Len(on_rse) : on_rse[n] \notin DOMAIN dict

FindPriority ==
    /\ pc = "find_priority"
    /\ rse_dict' = usage
    /\ IF KeyErrorRaised(tagged_on_rse, usage)
       THEN /\ pc' = "aborted"
            /\ err' = "KeyError"
            /\ UNCHANGED <<to_delete_dids, to_delete_on_rse>>
       ELSE /\ to_delete_on_rse' =
                   ToDeleteOnRse(Unique(tagged_dids), tagged_dids, tagged_on_rse, usage)
            /\ to_delete_dids' =
                   ToDeleteDids(Unique(tagged_dids), tagged_dids, tagged_on_rse, usage)
            /\ pc' = IF to_delete_on_rse' = <<>> THEN "done" ELSE "delete"
            /\ err' = err
    /\ i' = 1
    /\ UNCHANGED <<tagged_dids, tagged_on_rse, worldVars, scanVars, showVars>>

(* --------------------- do_task: the deletion loop ---------------------- *)

\* rucio.delete_rule(did, rse, update_db=True) when it succeeds: the rule is
\* removed and the run database no longer lists the copy.
DeleteRule(cs, did, rse) == SelectSeq(cs, LAMBDA c : c # <<did, rse>>)

\* One iteration of "for i in range(len(self.to_delete_dids))". A call of
\* delete_rule that raises ends do_task: nothing in the loop catches it.
DeleteStep ==
    /\ pc = "delete"
    /\ i <= Len(to_delete_dids)
    /\ \E ok \in BOOLEAN :
          LET did == to_delete_dids[i]
              rse == to_delete_on_rse[i]
          IN  /\ calls' = Append(calls, [did |-> did, rse |-> rse, ok |-> ok])
              /\ IF ok
                 THEN /\ copies' = DeleteRule(copies, did, rse)
                      /\ i' = i + 1
                      /\ pc' = IF i + 1 > Len(to_delete_dids) THEN "done" ELSE "delete"
                      /\ err' = err
                 ELSE /\ copies' = copies
                      /\ i' = i
                      /\ pc' = "aborted"
                      /\ err' = "DeletionError"
    /\ UNCHANGED <<daemonVars, usage, rerun, scanVars, showVars>>

\* The process is stopped between two candidates.
Kill ==
    /\ pc = "delete"
    /\ pc' = "aborted"
    /\ err' = "Killed"
    /\ UNCHANGED <<daemonVars, i, worldVars, scanVars, showVars>>

\* The tagged collections a scan of the current run database gives.
Requery(cs) == [dids   |-> [n \in 1..Len(cs) |-> cs[n][1]],
                on_rse |-> [n \in 1..Len(cs) |-> cs[n][2]]]

\* A new pass from scratch: a new DeleteDaemon (__init__) whose tagged
\* collections are read from the run database as it is now.
Rerun ==
    /\ pc \in {"done", "aborted"}
    /\ rerun = <<>>
    /\ rerun' = <<[pc |-> pc, err |-> err, calls |-> calls]>>
    /\ tagged_dids' = Requery(copies).dids
    /\ tagged_on_rse' = Requery(copies).on_rse
    /\ to_delete_dids' = <<>>
    /\ to_delete_on_rse' = <<>>
    /\ rse_dict' = EmptyDict
    /\ calls' = <<>>
    /\ pc' = "find_priority"
    /\ err' = ""
    /\ i' = 1
    /\ UNCHANGED <<usage, copies, scanVars, showVars>>

(* ------------------------- idle parts of a model ----------------------- *)

ScanIdle ==
    /\ runs = <<>>
    /\ raw_type_only = TRUE
    /\ ri = 1
    /\ di = 1
    /\ seen = <<>>

\* a key that a document of the run database does not have
Absent == <<"(absent)">>

\* the local variable eb of showrun before its first assignment
Unbound == <<"(unbound)">>

AggIdle ==
    /\ run = Absent
    /\ datum = Absent
    /\ Copies = 0

RunIdle ==
    /\ cursor = <<>>
    /\ args = Absent
    /\ rr = 1
    /\ dj = 1
    /\ eb = Unbound
    /\ shown = <<>>

ShowIdle ==
    /\ Nfiles = -1
    /\ ebstatus = ""
    /\ len_rses_with_data = 0
    /\ rses = <<>>
    /\ k = 1
    /\ warnings = <<>>
    /\ AggIdle
    /\ RunIdle

WorldIdle ==
    /\ usage = EmptyDict
    /\ copies = <<>>
    /\ calls = <<>>
    /\ rerun = <<>>

(* ------------ find_priority and the deletion loop: Spec ---------------- *)

\* DeleteDaemon.__init__, then tagged collections of the caller's choice
Init ==
    /\ \E tagged \in SeqsUpTo(Pairs, MaxTagged) :
          /\ tagged_dids = Requery(tagged).dids
          /\ tagged_on_rse = Requery(tagged).on_rse
          /\ copies = tagged
    /\ to_delete_dids = <<>>
    /\ to_delete_on_rse = <<>>
    /\ rse_dict = EmptyDict
    /\ usage \in UsageSpace
    /\ calls = <<>>
    /\ rerun = <<>>
    /\ pc = "find_priority"
    /\ err = ""
    /\ i = 1
    /\ ScanIdle
    /\ ShowIdle

Next == FindPriority \/ DeleteStep \/ Kill \/ Rerun

Spec == Init /\ [][Next]_vars

(* ---------------- DeleteDaemon.find_single_copy: SpecScan -------------- *)

\* the default of the parameter exclude_rses
ExcludeRses == {"UC_DALI_USERDISK"}

\* utils.RAW_DTYPES: the data types that count as raw
RAW_DTYPES == {<<"raw_records">>}

\* a data entry without the key 'location'
NoLocation == "(no location)"

\* the data entries of a run document: d.get('did') is falsy for NoDid
Entries == [did : {NoDid, DidRaw, DidPeaks, DidJunk},
            location : {NoLocation, "UC_DALI_USERDISK", "NIKHEF2_USERDISK"}]

\* str.split(sep): the parts between the separators
RECURSIVE Split(_, _)
Split(s, sep) ==
    IF s = <<>> THEN << <<>> >>
    ELSE LET rest == Split(Tail(s), sep)
         IN  IF Head(s) = sep
             THEN << <<>> >> \o rest
             ELSE << <<Head(s)>> \o Head(rest) >> \o Tail(rest)

\* d['did'].split(':')[1] raises IndexError when the did holds no ':'
DtypeRaises(did) == Len(Split(did, ":")) < 2

\* dtype = d['did'].split(':')[1].split('-')[0]
Dtype(did) == Split(Split(did, ":")[2], "-")[1]

\* The statements under "if d.get('did'):" up to the except clause, for one
\* entry: the exception the try block raises, or
\*   "no_did"  d.get('did') is falsy
\*   "append"  the two np.append calls were made
\*   "skip"    the entry is of another type or on an excluded location
TryBlock(d, raw_only) ==
    IF d.did = NoDid THEN "no_did"
    ELSE IF DtypeRaises(d.did) THEN "IndexError"
    ELSE IF raw_only
         THEN IF Dtype(d.did) \notin RAW_DTYPES THEN "skip"
              ELSE IF d.location = NoLocation THEN "KeyError"
              ELSE IF d.location \in ExcludeRses THEN "skip"
              ELSE "append"
         ELSE IF d.location = NoLocation THEN "KeyError"
              ELSE IF d.location \in ExcludeRses THEN "skip"
              ELSE "append"

\* "except IndexError:" in the place of the bare "except:"
CaughtIndexErrorOnly(exc) == exc = "IndexError"

\* "except: pass" catches whatever the try block raises
Caught(exc) == TRUE

\* What the body of "for d in cursor['data']" does with one entry:
\*   "except"  the try block raised and the except clause passed
\*   "raise"   the try block raised and the exception leaves the loop
\*   otherwise what the try block did
Outcome(d, raw_only) ==
    LET t == TryBlock(d, raw_only)
    IN  IF t \in {"IndexError", "KeyError"}
        THEN IF Caught(t) THEN "except" ELSE "raise"
        ELSE t

\* np.append(arr, x) returns a new array and leaves arr as it is; the code
\* drops the result, so the collection of the daemon stays what it was.
NpAppendDropped(arr, x) == arr

\* the position of the next entry after entry d of run r
RECURSIVE NextPos(_, _, _)
NextPos(rs, r, d) ==
    IF r > Len(rs) THEN <<r, 1>>
    ELSE IF d + 1 <= Len(rs[r]) THEN <<r, d + 1>>
    ELSE NextPos(rs, r + 1, 0)

\* one entry of "for i in range(n_tagged): for d in cursor['data']"
ScanDatum ==
    /\ pc = "find_single_copy"
    /\ ri <= Len(runs)
    /\ LET d == runs[ri][di]
           o == Outcome(d, raw_type_only)
       IN  /\ IF o = "append"
              THEN /\ tagged_dids' = NpAppendDropped(tagged_dids, d.did)
                   /\ tagged_on_rse' = NpAppendDropped(tagged_on_rse, d.location)
              ELSE UNCHANGED <<tagged_dids, tagged_on_rse>>
           /\ seen' = Append(seen, o)
           /\ IF o = "raise"
              THEN /\ pc' = "aborted"
                   /\ err' = TryBlock(d, raw_type_only)
                   /\ UNCHANGED <<ri, di>>
              ELSE /\ ri' = NextPos(runs, ri, di)[1]
                   /\ di' = NextPos(runs, ri, di)[2]
                   /\ UNCHANGED <<pc, err>>
    /\ UNCHANGED <<to_delete_dids, to_delete_on_rse, rse_dict, i, worldVars,
                   runs, raw_type_only, showVars>>

\* print('Found %s runs to delete'%(len(tagged_dids))): tagged_dids is no name
\* of the function nor of the module, so the statement raises NameError and
\* do_task ends before find_priority.
ScanEnd ==
    /\ pc = "find_single_copy"
    /\ ri > Len(runs)
    /\ pc' = "aborted"
    /\ err' = "NameError"
    /\ UNCHANGED <<daemonVars, i, worldVars, scanVars, showVars>>

\* DeleteDaemon.__init__, and the documents of the runs tagged _single_copy
InitScan ==
    /\ \E flat \in SeqsUpTo(Entries, MaxEntries) :
          \E c \in 0..Len(flat) :
              /\ runs = <<SubSeq(flat, 1, c), SubSeq(flat, c + 1, Len(flat))>>
              /\ ri = NextPos(runs, 1, 0)[1]
              /\ di = NextPos(runs, 1, 0)[2]
    /\ raw_type_only \in BOOLEAN
    /\ seen = <<>>
    /\ tagged_dids = <<>>
    /\ tagged_on_rse = <<>>
    /\ to_delete_dids = <<>>
    /\ to_delete_on_rse = <<>>
    /\ rse_dict = EmptyDict
    /\ pc = "find_single_copy"
    /\ err = ""
    /\ i = 1
    /\ WorldIdle
    /\ ShowIdle

NextScan == ScanDatum \/ ScanEnd

SpecScan == InitScan /\ [][NextScan]_vars

\* the (did, location) pairs the docstring of find_single_copy promises
RECURSIVE Qualifying(_, _)
Qualifying(data, raw_only) ==
    IF data = <<>> THEN <<>>
    ELSE (IF Outcome(Head(data), raw_only) = "append"
          THEN << <<Head(data).did, Head(data).location>> >> ELSE <<>>)
         \o Qualifying(Tail(data), raw_only)

RECURSIVE AllData(_)
AllData(rs) == IF rs = <<>> THEN <<>> ELSE Head(rs) \o AllData(Tail(rs))

\* C7: after the scan of all tagged runs the tagged collections hold,
\* position by position, the (did, location) pairs of the scanned entries
\* that have a did, are not on an excluded location and (with raw_type_only)
\* are of a raw type.
C7_TaggedHoldQualifyingPairs ==
    ri > Len(runs) =>
        LET q == Qualifying(AllData(runs), raw_type_only)
        IN  /\ tagged_dids = Requery(q).dids
            /\ tagged_on_rse = Requery(q).on_rse

(* ------------------ showdataset, step 3: SpecShow ---------------------- *)

\* helper.get_hostconfig()['rses'] and ['upload_to']
RSES == <<"LNGS_USERDISK", "UC_OSG_USERDISK">>
UPLOAD_TO == "LNGS_USERDISK"

\* the status strings of a data entry of the run database
DBStatuses == {"", "transferring", "transferred"}
EBStatuses == {"", "transferring", "transferred", "eb_ready_to_upload"}

\* what step 2 leaves for one location
RseRecords(name) ==
    [name : {name}, DBentries : 0..MaxDBentries, DBStatus : DBStatuses,
     RucioExists : BOOLEAN, RucioNFiles : 0..MaxFiles]

\* the six conditions of the upload branch, in the order of the code
Case1(rse) ==
    /\ rse.RucioNFiles = Nfiles /\ ~rse.RucioExists /\ rse.DBStatus = ""
    /\ rse.DBentries = 0 /\ len_rses_with_data = 0

Case2(rse) ==
    /\ rse.RucioNFiles = Nfiles /\ rse.RucioExists /\ rse.DBStatus = ""
    /\ rse.DBentries = 0 /\ len_rses_with_data = 1

Case3(rse) ==
    /\ rse.RucioNFiles = Nfiles /\ rse.RucioExists /\ rse.DBStatus = "transferred"
    /\ rse.DBentries = 1 /\ len_rses_with_data = 1

Case4(rse) ==
    /\ rse.RucioNFiles = 0 /\ ~rse.RucioExists /\ rse.DBStatus = ""
    /\ rse.DBentries = 0 /\ len_rses_with_data = 0
    /\ ebstatus \notin {"", "transferred"}

CaseCopiesAbroad(rse) ==
    /\ rse.RucioNFiles = Nfiles /\ rse.RucioExists /\ rse.DBStatus = "transferred"
    /\ rse.DBentries = 1 /\ len_rses_with_data > 0
    /\ ebstatus \notin {"", "transferred"}

Case5(rse) ==
    /\ rse.RucioNFiles # Nfiles /\ rse.RucioExists /\ rse.DBStatus = ""
    /\ rse.DBentries = 0 /\ len_rses_with_data = 1
    /\ ebstatus = "transferring"

\* the commands each warning prints as its hint
HintCase1 == <<"rucio add-rule", "admix-fix --fix_upload_db", "admix-fix --create_upload_rules">>
HintCase2 == <<"admix-fix --fix_upload_db", "admix-fix --create_upload_rules">>
HintCase3 == <<"admix-fix --create_upload_rules">>
HintCase4 == <<"admix-fix --set_eb_status eb_ready_to_upload">>
HintCopiesAbroad == <<"admix-fix --set_eb_status transferred">>
HintCase5 == <<"admix-fix --fix_upload">>

Warning(rse, kind, hint) == [rse |-> rse.name, kind |-> kind, hint |-> hint, record |-> rse]

If(cond, w) == IF cond THEN <<w>> ELSE <<>>

\* "if rse['name']==UPLOAD_TO": six if statements, one after the other
UploadAnalysis(rse) ==
    If(Case1(rse), Warning(rse, "rule not created", HintCase1))
    \o If(Case2(rse), Warning(rse, "DB not updated", HintCase2))
    \o If(Case3(rse), Warning(rse, "rules abroad missing", HintCase3))
    \o If(Case4(rse), Warning(rse, "upload never started", HintCase4))
    \o If(CaseCopiesAbroad(rse), Warning(rse, "copies abroad", HintCopiesAbroad))
    \o If(Case5(rse), Warning(rse, "upload interrupted", HintCase5))

\* Agree with "DBentries >= 1" where the code has "DBentries == 1"
AgreeAtLeastOne(rse) ==
    \/ (rse.RucioNFiles = Nfiles /\ rse.RucioExists /\ rse.DBentries >= 1
        /\ rse.DBStatus = "transferred")
    \/ (rse.RucioNFiles = 0 /\ ~rse.RucioExists /\ rse.DBentries = 0
        /\ rse.DBStatus # "transferred")

\* the condition under "else": the replica and the database agree
Agree(rse) ==
    \/ (rse.RucioNFiles = Nfiles /\ rse.RucioExists /\ rse.DBentries = 1
        /\ rse.DBStatus = "transferred")
    \/ (rse.RucioNFiles = 0 /\ ~rse.RucioExists /\ rse.DBentries = 0
        /\ rse.DBStatus # "transferred")

OtherAnalysis(rse) == If(~Agree(rse), Warning(rse, "inconsistent", <<>>))

\* one iteration of "for rse in rses" of step 3
AnalyseRse ==
    /\ pc = "analysis"
    /\ k <= Len(rses)
    /\ warnings' = warnings \o (IF rses[k].name = UPLOAD_TO
                                THEN UploadAnalysis(rses[k])
                                ELSE OtherAnalysis(rses[k]))
    /\ k' = k + 1
    /\ UNCHANGED <<daemonVars, taskVars, worldVars, scanVars,
                   Nfiles, ebstatus, len_rses_with_data, rses, aggVars, runVars>>

\* showdataset after step 2: what the run database and rucio say of one
\* dataset and of each location of RSES
InitShow ==
    /\ Nfiles \in -1..MaxFiles
    /\ ebstatus \in EBStatuses
    /\ len_rses_with_data \in 0..MaxRules
    /\ rses \in [1..Len(RSES) -> UNION {RseRecords(RSES[n]) : n \in 1..Len(RSES)}]
    /\ \A n \in 1..Len(RSES) : rses[n].name = RSES[n]
    /\ k = 1
    /\ warnings = <<>>
    /\ pc = "analysis"
    /\ err = ""
    /\ i = 1
    /\ tagged_dids = <<>>
    /\ tagged_on_rse = <<>>
    /\ to_delete_dids = <<>>
    /\ to_delete_on_rse = <<>>
    /\ rse_dict = EmptyDict
    /\ WorldIdle
    /\ ScanIdle
    /\ AggIdle
    /\ RunIdle

NextShow == AnalyseRse

SpecShow == InitShow /\ [][NextShow]_vars

(* ------------- showdataset up to step 2: SpecAgg ----------------------- *)

\* hosts of data entries: two event builders and the rucio catalogue
EbHost1   == <<"eb1", ".", "xenon", ".", "local">>
EbHost2   == <<"eb2", ".", "xenon", ".", "local">>
RucioHost == <<"rucio", "-catalogue">>

\* the location of a dataset on the disk of an event builder
EbLocation == <<"/data/xenonnt_processed/", "007330", "-", "raw_records", "-", "rfzvpzj4mf">>

\* a data entry without the key 'status'
NoStatus == "(absent)"

\* utils.make_did(number, dtype, hash)
MakeDid(number, dtype, hash) == <<"xnt_", number, ":", dtype, "-">> \o hash

ShowDidRaw   == MakeDid("007330", "raw_records", <<"rfzvpzj4mf">>)
ShowDidPeaks == MakeDid("007330", "peaks", <<"pdrdgswnsa">>)

\* "needle in hay" of two strings: needle is a part of hay
Contains(hay, needle) ==
    \E n \in 0..(Len(hay) - Len(needle)) : SubSeq(hay, n + 1, n + Len(needle)) = needle

\* the entries an event builder records of a dataset
EbEntries(hosts, types) ==
    [host : hosts, type : types, did : {Absent}, location : {Absent, EbLocation},
     status : {NoStatus, "transferring"}, file_count : {-1, MaxFiles}]

\* the entries recorded for the copies in rucio; an entry may lack its did
\* or its location, and a location may be one that is not configured but
\* whose name holds the name of a configured one
RucioEntries ==
    [host : {RucioHost}, type : {"raw_records"},
     did : {Absent, ShowDidRaw, ShowDidPeaks},
     location : {Absent, <<"LNGS_USERDISK">>, <<"UC_OSG_USERDISK">>,
                 <<"UC_OSG_USERDISK", "_TEST">>},
     status : {NoStatus, "transferred"}, file_count : {-1}]

\* hash = datum['location'].split('-')[-1]
Hash(d) == LET parts == Split(d.location, "-") IN parts[Len(parts)]

\* did = utils.make_did(number, dtype, hash)
Did(r, d) == MakeDid(r.number, d.type, Hash(d))

\* eb = datum['host'].split('.')[0]
Eb(d) == Split(d.host, ".")[1]

\* "d['type'] == dtype and eb in d['host'] and hash in d['location']"
IsCopy(d, dat) == d.type = dat.type /\ Contains(d.host, Eb(dat)) /\ Contains(d.location, Hash(dat))

\* the loop that counts the double entries reads d['location'] of every
\* entry of the same type and host: KeyError when one of them has none
CopiesRaises(data, dat) ==
    \E n \in 1..Len(data) :
        /\ data[n].type = dat.type
        /\ Contains(data[n].host, Eb(dat))
        /\ data[n].location = Absent

CountCopies(data, dat) == Cardinality({n \in 1..Len(data) : IsCopy(data[n], dat)})

\* showdataset from its first statement to the check of the double entries
ShowDatasetHead ==
    /\ pc = "showdataset"
    /\ IF datum.location = Absent
       THEN /\ pc' = "returned"
            /\ UNCHANGED <<err, Nfiles, ebstatus, Copies>>
       ELSE /\ Nfiles' = datum.file_count
            /\ ebstatus' = IF datum.status = NoStatus THEN "" ELSE datum.status
            /\ IF CopiesRaises(run.data, datum)
               THEN /\ pc' = "aborted"
                    /\ err' = "KeyError (double entries)"
                    /\ UNCHANGED Copies
               ELSE /\ pc' = "step2"
                    /\ err' = err
                    /\ Copies' = CountCopies(run.data, datum)
    /\ UNCHANGED <<daemonVars, i, worldVars, scanVars,
                   len_rses_with_data, rses, k, warnings, run, datum, runVars>>

\* "if 'rucio' in d['host']"
RucioHosted(d) == Contains(d.host, <<"rucio">>)

\* "d['did'] == did and rse['name'] in d['location']"
Matches(d, did, name) == d.did = did /\ Contains(d.location, <<name>>)

\* rse['DBentries']
DBentries(data, did, name) ==
    Cardinality({n \in 1..Len(data) : RucioHosted(data[n]) /\ Matches(data[n], did, name)})

\* rse['DBStatus']: the status of the last matching entry that has one
RECURSIVE DBStatus(_, _, _)
DBStatus(data, did, name) ==
    IF data = <<>> THEN ""
    ELSE LET d == data[Len(data)]
         IN  IF RucioHosted(d) /\ Matches(d, did, name) /\ d.status # NoStatus
             THEN d.status
             ELSE DBStatus(SubSeq(data, 1, Len(data) - 1), did, name)

\* step 2 reads d['did'] of every entry hosted by rucio and d['location'] of
\* those of this did: KeyError when the key is missing
StepTwoRaises(data, did) ==
    \E n \in 1..Len(data) :
        /\ RucioHosted(data[n])
        /\ \/ data[n].did = Absent
           \/ data[n].did = did /\ data[n].location = Absent

\* what rucio answers for one location: no rule and no file, or the rule
\* and every file
RucioAnswers == {[exists |-> FALSE, nfiles |-> 0], [exists |-> TRUE, nfiles |-> MaxFiles]}

\* the rules of the dataset in rucio, then steps 1 and 2
FillRses ==
    /\ pc = "step2"
    /\ IF StepTwoRaises(run.data, Did(run, datum))
       THEN /\ pc' = "aborted"
            /\ err' = "KeyError (step 2)"
            /\ UNCHANGED <<len_rses_with_data, rses>>
       ELSE /\ pc' = "step3"
            /\ err' = err
            /\ len_rses_with_data' \in 0..MaxRules
            /\ \E answer \in [1..Len(RSES) -> RucioAnswers] :
                  rses' = [n \in 1..Len(RSES) |->
                              [name |-> RSES[n],
                               DBentries |-> DBentries(run.data, Did(run, datum), RSES[n]),
                               DBStatus |-> DBStatus(run.data, Did(run, datum), RSES[n]),
                               RucioExists |-> answer[n].exists,
                               RucioNFiles |-> answer[n].nfiles]]
    /\ UNCHANGED <<daemonVars, i, worldVars, scanVars,
                   Nfiles, ebstatus, k, warnings, aggVars, runVars>>

AggEntries == EbEntries({EbHost1}, {"raw_records"}) \cup RucioEntries

\* showdataset(run, datum) called for an entry of an event builder
InitAgg ==
    /\ \E data \in SeqsUpTo(AggEntries, MaxRunData) :
          \E n \in 1..Len(data) :
              /\ ~RucioHosted(data[n])
              /\ run = [number |-> "007330", data |-> data]
              /\ datum = data[n]
    /\ Copies = 0
    /\ pc = "showdataset"
    /\ err = ""
    /\ i = 1
    /\ tagged_dids = <<>>
    /\ tagged_on_rse = <<>>
    /\ to_delete_dids = <<>>
    /\ to_delete_on_rse = <<>>
    /\ rse_dict = EmptyDict
    /\ Nfiles = -1
    /\ ebstatus = ""
    /\ len_rses_with_data = 0
    /\ rses = <<>>
    /\ k = 1
    /\ warnings = <<>>
    /\ WorldIdle
    /\ ScanIdle
    /\ RunIdle

NextAgg == ShowDatasetHead \/ FillRses

SpecAgg == InitAgg /\ [][NextAgg]_vars

(* ------- the two places that skip an item: SpecItems ------------------- *)

\* the scan of the tagged runs by the daemon, or one call of showdataset by
\* the diagnostic
InitItems == InitScan \/ InitAgg

NextItems == NextScan \/ NextAgg

SpecItems == InitItems /\ [][NextItems]_vars

(* ------------------ the loop of showrun: SpecRun ----------------------- *)

\* the entries of run['data'] of the runs listed: copies on the disks of the
\* event builders, each with its location
RunEntries ==
    [host : {EbHost1, EbHost2}, type : {"raw_records", "peaks"}, did : {Absent},
     location : {EbLocation}, status : {NoStatus, "transferring", "transferred"},
     file_count : {-1}]

\* run['bootstrax']['host'] of a run, Absent for a run without 'bootstrax'
BootstraxHosts == {Absent, EbHost1, EbHost2}

\* the arguments of showrun that steer the loop
Args ==
    [status : BOOLEAN, compact : BOOLEAN, pending : BOOLEAN,
     dtypes : {<<>>, <<"raw_records">>}]

\* where "for run in cursor" goes after the run at position n
AfterRun(n) == IF n + 1 > Len(cursor) THEN "done" ELSE "showrun"

\* the body of "for run in cursor" down to "for datum in alldata"
ShowRunHead ==
    /\ pc = "showrun"
    /\ rr <= Len(cursor)
    /\ LET r == cursor[rr]
       IN  IF args.status
           THEN /\ rr' = rr + 1
                /\ pc' = AfterRun(rr)
                /\ UNCHANGED <<eb, dj>>
           ELSE /\ eb' = IF r.bootstrax # Absent THEN Split(r.bootstrax, ".")[1] ELSE eb
                /\ IF args.compact \/ r.data = <<>>
                   THEN /\ rr' = rr + 1
                        /\ pc' = AfterRun(rr)
                        /\ dj' = dj
                   ELSE /\ rr' = rr
                        /\ pc' = "data"
                        /\ dj' = 1
    /\ UNCHANGED <<daemonVars, err, i, worldVars, scanVars,
                   Nfiles, ebstatus, len_rses_with_data, rses, k, warnings,
                   aggVars, cursor, args, shown>>

\* "if arg_pending: ... continue" and "if len(arg_dtypes)>0: ... continue"
FilteredOut(d) ==
    \/ args.pending /\ (IF d.status = NoStatus THEN "" ELSE d.status) \in {"", "transferred"}
    \/ Len(args.dtypes) > 0 /\ d.type \notin Range(args.dtypes)

\* one entry of "for datum in alldata"; every evaluation of
\* "eb in datum['host']" is written to shown with the eb it used
ShowDatum ==
    /\ pc = "data"
    /\ LET d == cursor[rr].data[dj]
           last == dj + 1 > Len(cursor[rr].data)
       IN  IF ~FilteredOut(d) /\ eb = Unbound
           THEN /\ pc' = "aborted"
                /\ err' = "UnboundLocalError"
                /\ UNCHANGED <<rr, dj, shown>>
           ELSE /\ shown' = IF FilteredOut(d) THEN shown
                            ELSE Append(shown, [run |-> rr, datum |-> dj, eb |-> eb,
                                                called |-> Contains(d.host, eb)])
                /\ rr' = IF last THEN rr + 1 ELSE rr
                /\ dj' = IF last THEN 1 ELSE dj + 1
                /\ pc' = IF last THEN AfterRun(rr) ELSE pc
                /\ err' = err
    /\ UNCHANGED <<daemonVars, i, worldVars, scanVars,
                   Nfiles, ebstatus, len_rses_with_data, rses, k, warnings,
                   aggVars, cursor, args, eb>>

\* showrun with the two runs the query returned
InitRun ==
    /\ \E flat \in SeqsUpTo(RunEntries, MaxRunData) :
          \E c \in 0..Len(flat) :
              \E b1 \in BootstraxHosts, b2 \in BootstraxHosts :
                  cursor = <<[bootstrax |-> b1, data |-> SubSeq(flat, 1, c)],
                             [bootstrax |-> b2, data |-> SubSeq(flat, c + 1, Len(flat))]>>
    /\ args \in Args
    /\ rr = 1
    /\ dj = 1
    /\ eb = Unbound
    /\ shown = <<>>
    /\ pc = "showrun"
    /\ err = ""
    /\ i = 1
    /\ tagged_dids = <<>>
    /\ tagged_on_rse = <<>>
    /\ to_delete_dids = <<>>
    /\ to_delete_on_rse = <<>>
    /\ rse_dict = EmptyDict
    /\ Nfiles = -1
    /\ ebstatus = ""
    /\ len_rses_with_data = 0
    /\ rses = <<>>
    /\ k = 1
    /\ warnings = <<>>
    /\ WorldIdle
    /\ ScanIdle
    /\ AggIdle

NextRun == ShowRunHead \/ ShowDatum

SpecRun == InitRun /\ [][NextRun]_vars

(* ======================= properties under Spec ========================= *)

\* the locations tagged for d, and the locations marked for deletion for d
LocsOf(d) == {tagged_on_rse[n] : n \in {m \in 1..Len(tagged_dids) : tagged_dids[m] = d}}
DeletedOf(d) ==
    {to_delete_on_rse[n] : n \in {m \in 1..Len(to_delete_dids) : to_delete_dids[m] = d}}

\* find_priority has returned in this pass
Selected == pc # "find_priority" /\ err # "KeyError"

DistinctCapacities(L) ==
    /\ L \subseteq DOMAIN rse_dict
    /\ \A a, b \in L : a # b => rse_dict[a] # rse_dict[b]

\* C1: in the result find_priority returns, every tagged did with N >= 2
\* distinct locations whose remaining capacities are pairwise distinct keeps
\* exactly the location of maximum remaining capacity and has exactly the
\* other N-1 locations marked for deletion: kept + deleted number N and the
\* deleted locations are among the did's tagged locations.
C1_KeepsMaximumDeletesRest ==
    Selected =>
        \A d \in Range(tagged_dids) :
            LET L == LocsOf(d)
            IN  (Cardinality(L) >= 2 /\ DistinctCapacities(L)) =>
                    \E keep \in L :
                        /\ \A l \in L : rse_dict[l] <= rse_dict[keep]
                        /\ DeletedOf(d) = L \ {keep}
                        /\ 1 + Cardinality(DeletedOf(d)) = Cardinality(L)
                        /\ DeletedOf(d) \subseteq L

C1_Witness ==
    /\ Selected
    /\ \E d \in Range(tagged_dids) :
          /\ Cardinality(LocsOf(d)) = 3
          /\ DistinctCapacities(LocsOf(d))
          /\ Cardinality(DeletedOf(d)) = 2

\* C4: a deletion call that fails is not fatal for the batch: when the pass
\* has ended and a call failed, every candidate of the delete list has been
\* attempted exactly once, the later ones included.
C4_FailureIsNotFatal ==
    (pc \in {"done", "aborted"} /\ \E n \in 1..Len(calls) : ~calls[n].ok) =>
        /\ Len(calls) = Len(to_delete_dids)
        /\ \A n \in 1..Len(calls) :
              calls[n].did = to_delete_dids[n] /\ calls[n].rse = to_delete_on_rse[n]

\* a missing entry of the Capacity Directory counted as zero bytes
ZeroFilled(dict) == [l \in Locations |-> IF l \in DOMAIN dict THEN dict[l] ELSE 0]

\* C5: a tagged location absent from the Capacity Directory is ranked as
\* having zero remaining capacity and the selection completes: no KeyError
\* ends the pass, and the delete list is the one the zero ranking gives.
C5_MissingCapacityRankedZero ==
    (pc # "find_priority" /\ KeyErrorRaised(tagged_on_rse, usage)) =>
        /\ err # "KeyError"
        /\ to_delete_on_rse = ToDeleteOnRse(Unique(tagged_dids), tagged_dids,
                                            tagged_on_rse, ZeroFilled(usage))

\* C6: within one pass delete_rule is called at most once for each
\* (did, location) pair.
C6_AtMostOneCallPerPair ==
    \A n, m \in 1..Len(calls) :
        (calls[n].did = calls[m].did /\ calls[n].rse = calls[m].rse) => n = m

\* C9: when several locations of a did share the maximum remaining
\* capacity, the location kept is the first of them in input order, and every
\* other location of the did is marked for deletion, those of the same
\* capacity too.
C9_TieKeepsFirstInInputOrder ==
    Selected =>
        \A d \in Range(tagged_dids) :
            LET rs == Masked(tagged_on_rse, tagged_dids, d)
                top == {n \in 1..Len(rs) : \A m \in 1..Len(rs) : rse_dict[rs[m]] <= rse_dict[rs[n]]}
                first == CHOOSE n \in top : \A m \in top : n <= m
            IN  Cardinality({rs[n] : n \in top}) >= 2 =>
                    /\ rs[first] \notin DeletedOf(d)
                    /\ DeletedOf(d) = LocsOf(d) \ {rs[first]}

\* the spec's scenario 4: capacities A < B = C, input order A, B, C
C9_Witness ==
    /\ Selected
    /\ tagged_dids = <<DidRaw, DidRaw, DidRaw>>
    /\ tagged_on_rse = <<"NIKHEF2_USERDISK", "UC_OSG_USERDISK", "SURFSARA_USERDISK">>
    /\ rse_dict["NIKHEF2_USERDISK"] < rse_dict["UC_OSG_USERDISK"]
    /\ rse_dict["UC_OSG_USERDISK"] = rse_dict["SURFSARA_USERDISK"]
    /\ to_delete_on_rse = <<"NIKHEF2_USERDISK", "SURFSARA_USERDISK">>

C10_WitnessAfterDone ==
    /\ rerun # <<>>
    /\ rerun[1].pc = "done"
    /\ rerun[1].calls # <<>>
    /\ pc = "done"

\* C13: find_priority never marks every copy of a dataset: once it has
\* run, every tagged did has a tagged location that is not in the delete
\* list, and a did tagged at one location only has nothing in the delete list.
C13_NeverMarksEveryCopy ==
    pc # "find_priority" =>
        \A d \in Range(tagged_dids) :
            /\ LocsOf(d) \ DeletedOf(d) # {}
            /\ Cardinality(LocsOf(d)) = 1 => DeletedOf(d) = {}

\* a did at one location beside a did that had a location marked
C13_Witness ==
    /\ Selected
    /\ \E d \in Range(tagged_dids) : Cardinality(LocsOf(d)) = 1 /\ DeletedOf(d) = {}
    /\ \E d \in Range(tagged_dids) : DeletedOf(d) # {} /\ LocsOf(d) \ DeletedOf(d) # {}

(* ===================== properties under SpecShow ======================= *)

\* the warnings printed for the location of name n
WarningsOf(n) == SelectSeq(warnings, LAMBDA w : w.rse = n)

\* the locations step 3 has analysed
Analysed == {rses[n] : n \in 1..(k - 1)}

\* C2: for every record at the upload target at most one warning is
\* printed: no two of the six conditions hold of the same record.
C2_AtMostOneUploadWarning ==
    \A rse \in Analysed : rse.name = UPLOAD_TO => Len(WarningsOf(rse.name)) <= 1

\* C3: for a location other than the upload target no warning is printed
\* if and only if the replica is complete and recorded once as transferred,
\* or absent and not recorded as transferred; every other combination gives
\* exactly one warning, the generic one with the record, and none of the
\* warnings of the upload branch is printed for such a location.
C3_OtherLocationsGenericWarning ==
    \A rse \in Analysed :
        rse.name # UPLOAD_TO =>
            LET ws == WarningsOf(rse.name)
                healthy ==
                    \/ /\ rse.RucioNFiles = Nfiles
                       /\ rse.RucioExists
                       /\ rse.DBentries = 1
                       /\ rse.DBStatus = "transferred"
                    \/ /\ rse.RucioNFiles = 0
                       /\ ~rse.RucioExists
                       /\ rse.DBentries = 0
                       /\ rse.DBStatus # "transferred"
            IN  /\ healthy <=> ws = <<>>
                /\ ~healthy => /\ Len(ws) = 1
                               /\ ws[1].kind = "inconsistent"
                               /\ ws[1].record = rse
                /\ \A n \in 1..Len(ws) : ws[n].kind = "inconsistent"

\* the spec's scenario 3: nothing at the location, one entry "transferred"
C3_Witness ==
    \E rse \in Analysed :
        /\ rse.name # UPLOAD_TO
        /\ rse.RucioNFiles = 0 /\ ~rse.RucioExists
        /\ rse.DBentries = 1 /\ rse.DBStatus = "transferred"
        /\ Len(WarningsOf(rse.name)) = 1

\* the spec's scenario 2: a complete replica recorded once as transferred
C3_WitnessHealthy ==
    \E rse \in Analysed :
        /\ rse.name # UPLOAD_TO
        /\ Nfiles > 0 /\ rse.RucioNFiles = Nfiles /\ rse.RucioExists
        /\ rse.DBentries = 1 /\ rse.DBStatus = "transferred"
        /\ WarningsOf(rse.name) = <<>>

\* the decision table of the upload branch: rows 1 to 5, first match wins
TableRow(rse) ==
    IF /\ rse.RucioNFiles = Nfiles /\ ~rse.RucioExists /\ rse.DBStatus = ""
       /\ rse.DBentries = 0 /\ len_rses_with_data = 0
    THEN <<HintCase1>>
    ELSE IF /\ rse.RucioNFiles = Nfiles /\ rse.RucioExists /\ rse.DBStatus = ""
            /\ rse.DBentries = 0 /\ len_rses_with_data = 1
    THEN <<HintCase2>>
    ELSE IF /\ rse.RucioNFiles = Nfiles /\ rse.RucioExists
            /\ rse.DBStatus = "transferred" /\ rse.DBentries = 1
            /\ len_rses_with_data = 1
    THEN <<HintCase3>>
    ELSE IF /\ rse.RucioNFiles = 0 /\ ~rse.RucioExists /\ rse.DBStatus = ""
            /\ rse.DBentries = 0 /\ len_rses_with_data = 0
            /\ ebstatus \notin {"", "transferred"}
    THEN <<HintCase4>>
    ELSE IF /\ rse.RucioNFiles # Nfiles /\ rse.RucioExists /\ rse.DBStatus = ""
            /\ rse.DBentries = 0 /\ len_rses_with_data = 1
            /\ ebstatus = "transferring"
    THEN <<HintCase5>>
    ELSE <<>>

\* C8: for every record at the upload target the warnings printed are the
\* output of the decision table: the remediation of the first of the rows
\* 1 to 5 whose condition holds, and nothing when no row's condition holds.
C8_UploadBranchIsDecisionTable ==
    \A rse \in Analysed :
        rse.name = UPLOAD_TO =>
            LET ws == WarningsOf(rse.name)
            IN  [n \in 1..Len(ws) |-> ws[n].hint] = TableRow(rse)

(* ======================= properties under SpecAgg ====================== *)

\* the entries of the run's data hosted by rucio whose did is this dataset
\* and whose location is exactly the location of this name
RecordedAt(name) ==
    {n \in 1..Len(run.data) :
        /\ RucioHosted(run.data[n])
        /\ run.data[n].did = Did(run, datum)
        /\ run.data[n].location = <<name>>}

\* C12: for every configured location, DBentries is the number of entries
\* hosted by rucio whose did is this dataset and whose location is this
\* location; a location without such an entry has DBentries = 0 and
\* DBStatus = "", and step 2 raises no error; an entry recorded at another
\* location does not contribute.
C12_AggregatorCountsExactLocation ==
    /\ err # "KeyError (step 2)"
    /\ pc = "step3" =>
          \A n \in 1..Len(RSES) :
              /\ rses[n].DBentries = Cardinality(RecordedAt(RSES[n]))
              /\ RecordedAt(RSES[n]) = {} => rses[n].DBStatus = ""

(* ======================= properties under SpecItems ==================== *)

\* the state belongs to the scan of the daemon
Scanning == runs # <<>>

\* the entries of the tagged runs in the order of the scan
Scanned == AllData(runs)

\* the entry raises in the try block, or has no did
Faulty(d) == TryBlock(d, raw_type_only) \in {"no_did", "IndexError", "KeyError"}

\* C11: an entry without did, with a did that has no data type, or without
\* location is skipped by find_single_copy, no such entry ends the scan, and
\* every entry after it, of the same run and of the later runs, is examined;
\* showdataset returns without raising for a datum that has no location.
C11_PerItemErrorsNeverAbort ==
    /\ Scanning =>
          /\ Len(seen) <= Len(Scanned)
          /\ \A n \in 1..Len(seen) :
                /\ seen[n] # "raise"
                /\ Faulty(Scanned[n]) => seen[n] \in {"no_did", "except"}
          /\ ri > Len(runs) => Len(seen) = Len(Scanned)
          /\ pc = "aborted" => err = "NameError" /\ Len(seen) = Len(Scanned)
    /\ (~Scanning /\ pc # "showdataset" /\ datum.location = Absent) =>
          pc = "returned" /\ err = ""

\* the scan is over; an entry of the first run raised, and the entry of the
\* second run after it was examined and qualified
C11_Witness ==
    /\ Scanning
    /\ ri > Len(runs)
    /\ Len(runs[1]) >= 1
    /\ Len(runs[2]) >= 1
    /\ TryBlock(runs[1][1], raw_type_only) \in {"IndexError", "KeyError"}
    /\ Len(seen) = Len(Scanned)
    /\ seen[Len(seen)] = "append"

\* showdataset has returned for a datum without location
C11_WitnessNoLocation ==
    /\ ~Scanning
    /\ pc = "returned"
    /\ datum.location = Absent

(* ======================= properties under SpecRun ====================== *)

\* C14: every time the loop of showrun tests "eb in datum['host']" for an
\* entry of a run, eb is the host of the bootstrax record of that run; the
\* entries of a run without bootstrax record are never tested with the eb of
\* a run processed before.
C14_EbIsOfTheSameRun ==
    \A n \in 1..Len(shown) :
        LET r == cursor[shown[n].run]
        IN  /\ r.bootstrax # Absent
            /\ shown[n].eb = Split(r.bootstrax, ".")[1]

====
